---- MODULE Spec2Model ----
(***************************************************************************)
(* Model of the cleanup engine of maccleanup-rust (src/main.rs): the       *)
(* filesystem as a finite tree, the size estimators, the one-level         *)
(* directory cleaner with its retention rule, the execution-mode gate and  *)
(* the category sequence of main.                                          *)
(*                                                                         *)
(* The filesystem is a function from paths (sequences of names) to         *)
(* entries.  An entry records what the code reads of it: whether it is a   *)
(* directory, its length, whether its metadata can be read, and the        *)
(* seconds elapsed since its modification (negative: a modification time   *)
(* in the future, for which SystemTime::elapsed returns Err).  The clock   *)
(* is frozen during one run.                                               *)
(***************************************************************************)
EXTENDS Integers, Sequences, FiniteSets, TLC

VARIABLES
    fs,            \* the filesystem now
    fs0,           \* the filesystem when the run began
    cli,           \* the parsed command line
    pc,            \* where main is
    total_stats,   \* main's running total
    produced,      \* the CleanupStats each category has added to the total
    call,          \* the last operation: what it was given and what it answered
    pre,           \* the filesystem when the last operation began
    removals,      \* invocations of remove_file and remove_dir_all so far
    errors,        \* the messages given to log_error so far, with their category
    prompts        \* lines read from the terminal so far

vars == <<fs, fs0, cli, pc, total_stats, produced, call, pre, removals, errors, prompts>>

(***************************************************************************)
(* Bounds of the model and constants of the program.                       *)
(***************************************************************************)
MaxDays == 1          \* retention thresholds 0..MaxDays are tried

SecsPerDay == 86400

None == 0 - 1          \* Option::None of days_old (thresholds are >= 0)

\* the command line: Cli
Cli == [interactive : BOOLEAN, dry_run : BOOLEAN, force : BOOLEAN,
        verbose : {FALSE}, ram_only : BOOLEAN]

\* a variant in which force overrides dry_run as it overrides interactive
NewContext_force_first(args) ==
    [interactive |-> args.interactive /\ ~args.force,
     dry_run |-> args.dry_run /\ ~args.force,
     force |-> args.force,
     verbose |-> args.verbose]

\* main's construction of the CleanupContext
NewContext(args) ==
    [interactive |-> args.interactive /\ ~args.force,
     dry_run |-> args.dry_run,
     force |-> args.force,
     verbose |-> args.verbose]

\* the CleanupContext of the run
ctx == NewContext(cli)

(***************************************************************************)
(* Entries and paths.                                                      *)
(***************************************************************************)
NoEntry == [kind |-> "none", len |-> 0, meta |-> FALSE, elapsed |-> 0, list |-> FALSE]

File(len, meta, elapsed) ==
    [kind |-> "file", len |-> len, meta |-> meta, elapsed |-> elapsed, list |-> FALSE]

Dir(len, meta, elapsed) ==
    [kind |-> "dir", len |-> len, meta |-> meta, elapsed |-> elapsed, list |-> TRUE]

\* a directory that cannot be listed (no read permission): fs::read_dir is Err
SealedDir(len, meta, elapsed) ==
    [kind |-> "dir", len |-> len, meta |-> meta, elapsed |-> elapsed, list |-> FALSE]

\* Path::exists
exists(f, p) == p \in DOMAIN f /\ f[p].kind # "none"

\* Path::is_dir
is_dir(f, p) == p \in DOMAIN f /\ f[p].kind = "dir"

\* Path::file_name
file_name(p) == p[Len(p)]

IsPrefix(p, q) == Len(p) <= Len(q) /\ SubSeq(q, 1, Len(p)) = p

\* the entries fs::read_dir(p) yields: the immediate children of p
Children(f, p) ==
    {q \in DOMAIN f : f[q].kind # "none" /\ Len(q) = Len(p) + 1 /\ IsPrefix(p, q)}

\* a variant for which every directory can be listed
read_dir_ok_any(f, p) == is_dir(f, p)

\* fs::read_dir(p) is Ok exactly for an existing directory that can be listed
read_dir_ok(f, p) == is_dir(f, p) /\ f[p].list

\* p and everything below it
Subtree(f, p) == {q \in DOMAIN f : f[q].kind # "none" /\ IsPrefix(p, q)}

\* names known to the model that begin with '.'
DotNames == {".DS_Store", ".hidden", ".cache", ".Trash", ".npm"}

\* str::starts_with('.')
starts_with_dot(name) == name \in DotNames

\* the sum of g[x] over the elements x of S
RECURSIVE SetSum(_, _)
SetSum(S, g) ==
    IF S = {} THEN 0
    ELSE LET x == CHOOSE y \in S : TRUE IN g[x] + SetSum(S \ {x}, g)

(***************************************************************************)
(* CleanupStats                                                            *)
(***************************************************************************)
NewStats == [files_removed |-> 0, space_freed |-> 0]

\* a variant that keeps the larger of the two instead of adding
StatsAdd_larger(a, b) ==
    [files_removed |-> IF a.files_removed > b.files_removed
                       THEN a.files_removed ELSE b.files_removed,
     space_freed |-> IF a.space_freed > b.space_freed
                     THEN a.space_freed ELSE b.space_freed]

StatsAdd(a, b) ==
    [files_removed |-> a.files_removed + b.files_removed,
     space_freed |-> a.space_freed + b.space_freed]

(***************************************************************************)
(* SizeEstimator                                                           *)
(***************************************************************************)
\* entry.metadata().map(|m| m.len()).unwrap_or(0)
\* the categories of main that end with a cleaner returning CleanupStats (or,
\* for docker, nothing) to add to the total
StatCategories ==
    {"caches", "logs", "downloads", "trash", "xcode", "homebrew", "node", "docker",
     "safari", "chrome", "python", "containers", "cookies"}

NothingProduced == [n \in StatCategories |-> NewStats]

metadata_len(f, p) == IF f[p].meta THEN f[p].len ELSE 0

RECURSIVE get_directory_size(_, _)
get_directory_size(f, p) ==
    IF ~read_dir_ok(f, p) THEN 0
    ELSE SetSum(Children(f, p),
                [q \in Children(f, p) |->
                    IF is_dir(f, q) THEN get_directory_size(f, q)
                    ELSE metadata_len(f, q)])

\* metadata, modified and elapsed are all Ok
age_known(f, p) == f[p].meta /\ f[p].elapsed >= 0

\* a variant that rounds to the nearest day instead of truncating
days_elapsed_rounded(f, p) == (f[p].elapsed + SecsPerDay \div 2) \div SecsPerDay

\* elapsed.as_secs() / 86400
days_elapsed(f, p) == f[p].elapsed \div SecsPerDay

get_old_files_size(f, p, days) ==
    IF ~read_dir_ok(f, p) THEN 0
    ELSE SetSum(Children(f, p),
                [q \in Children(f, p) |->
                    IF age_known(f, q) /\ days_elapsed(f, q) >= days
                    THEN IF is_dir(f, q) THEN get_directory_size(f, q) ELSE f[q].len
                    ELSE 0])

(***************************************************************************)
(* The removal primitives.  locked is the set of paths the operating       *)
(* system refuses to unlink in this call (a locked file, a permission, an  *)
(* entry a third party holds).  A primitive answers [ok, fs].              *)
(***************************************************************************)
\* fs::remove_file
remove_file(f, p, locked) ==
    IF p \in locked \/ ~exists(f, p) \/ is_dir(f, p)
    THEN [ok |-> FALSE, fs |-> f]
    ELSE [ok |-> TRUE, fs |-> [f EXCEPT ![p] = NoEntry]]

\* fs::remove_dir_all: everything below p goes except the locked entries and
\* the directories that still hold one; Ok only when nothing was locked
remove_dir_all(f, p, locked) ==
    LET sub == Subtree(f, p)
        stuck == sub \cap locked
        kept == {q \in sub : \E s \in stuck : IsPrefix(q, s)}
    IN IF ~is_dir(f, p)
       THEN [ok |-> FALSE, fs |-> f]
       ELSE [ok |-> stuck = {},
             fs |-> [q \in DOMAIN f |-> IF q \in sub \ kept THEN NoEntry ELSE f[q]]]

(***************************************************************************)
(* DirectoryCleaner: clean_directory(path, days_old, ctx)                  *)
(***************************************************************************)
\* a variant that knows the marker file only
is_protected_marker_only(name) == name = ".DS_Store"

\* "Skip important system files"
is_protected(name) == name = ".DS_Store" \/ starts_with_dot(name)

\* a variant that also skips an entry that is exactly days_old days old
too_young_inclusive(f, q, days_old) ==
    /\ days_old # None
    /\ f[q].meta /\ f[q].elapsed >= 0
    /\ f[q].elapsed \div SecsPerDay <= days_old

\* "Check age if days_old is specified": the entry is skipped only when its
\* age could be read and is below the threshold
too_young(f, q, days_old) ==
    /\ days_old # None
    /\ age_known(f, q)
    /\ days_elapsed(f, q) < days_old

\* "Get size before deletion"
entry_size(f, q) ==
    IF is_dir(f, q) THEN get_directory_size(f, q) ELSE metadata_len(f, q)

\* "Try to remove"
remove_entry(f, q, locked) ==
    IF is_dir(f, q) THEN remove_dir_all(f, q, locked) ELSE remove_file(f, q, locked)

\* a variant whose simulation forgets the age test
clean_entry_dry_ignores_age(acc, q, days_old, c, locked) ==
    IF is_protected(file_name(q)) THEN acc
    ELSE IF ~c.dry_run /\ too_young(acc.fs, q, days_old) THEN acc
    ELSE LET size == entry_size(acc.fs, q)
             one == [files_removed |-> 1, space_freed |-> size]
         IN IF ~c.dry_run
            THEN LET r == remove_entry(acc.fs, q, locked)
                 IN [stats |-> IF r.ok THEN StatsAdd(acc.stats, one) ELSE acc.stats,
                     fs |-> r.fs,
                     removals |-> acc.removals + 1]
            ELSE [acc EXCEPT !.stats = StatsAdd(acc.stats, one)]

\* a variant that counts a directory as one removal per entry it holds
clean_entry_counts_nested(acc, q, days_old, c, locked) ==
    IF is_protected(file_name(q)) THEN acc
    ELSE IF too_young(acc.fs, q, days_old) THEN acc
    ELSE LET size == entry_size(acc.fs, q)
             all == [files_removed |-> Cardinality(Subtree(acc.fs, q)),
                     space_freed |-> size]
         IN IF ~c.dry_run
            THEN LET r == remove_entry(acc.fs, q, locked)
                 IN [stats |-> IF r.ok THEN StatsAdd(acc.stats, all) ELSE acc.stats,
                     fs |-> r.fs,
                     removals |-> acc.removals + 1]
            ELSE [acc EXCEPT !.stats = StatsAdd(acc.stats, all)]

\* a variant whose simulation removes as well
clean_entry_dry_removes(acc, q, days_old, c, locked) ==
    IF is_protected(file_name(q)) THEN acc
    ELSE IF too_young(acc.fs, q, days_old) THEN acc
    ELSE LET size == entry_size(acc.fs, q)
             one == [files_removed |-> 1, space_freed |-> size]
             r == remove_entry(acc.fs, q, locked)
         IN [stats |-> IF r.ok THEN StatsAdd(acc.stats, one) ELSE acc.stats,
             fs |-> r.fs,
             removals |-> acc.removals + 1]

\* a variant that reads the size after the removal
clean_entry_size_after(acc, q, days_old, c, locked) ==
    IF is_protected(file_name(q)) THEN acc
    ELSE IF too_young(acc.fs, q, days_old) THEN acc
    ELSE IF ~c.dry_run
         THEN LET r == remove_entry(acc.fs, q, locked)
                  one == [files_removed |-> 1, space_freed |-> entry_size(r.fs, q)]
              IN [stats |-> IF r.ok THEN StatsAdd(acc.stats, one) ELSE acc.stats,
                  fs |-> r.fs,
                  removals |-> acc.removals + 1]
         ELSE [acc EXCEPT !.stats =
                  StatsAdd(acc.stats,
                           [files_removed |-> 1, space_freed |-> entry_size(acc.fs, q)])]

\* one iteration of the loop over the listing; acc is [stats, fs, removals],
\* removals counting the invocations of a removal primitive
clean_entry(acc, q, days_old, c, locked) ==
    IF is_protected(file_name(q)) THEN acc
    ELSE IF too_young(acc.fs, q, days_old) THEN acc
    ELSE LET size == entry_size(acc.fs, q)
             one == [files_removed |-> 1, space_freed |-> size]
         IN IF ~c.dry_run
            THEN LET r == remove_entry(acc.fs, q, locked)
                 IN [stats |-> IF r.ok THEN StatsAdd(acc.stats, one) ELSE acc.stats,
                     fs |-> r.fs,
                     removals |-> acc.removals + 1]
            ELSE [acc EXCEPT !.stats = StatsAdd(acc.stats, one)]

\* a variant that gives up the listing at the first refused removal
RECURSIVE clean_entries_abort(_, _, _, _, _)
clean_entries_abort(acc, todo, days_old, c, locked) ==
    IF todo = {} THEN acc
    ELSE LET q == CHOOSE x \in todo : TRUE
             nxt == clean_entry(acc, q, days_old, c, locked)
             failed == nxt.removals > acc.removals /\ nxt.stats = acc.stats
         IN IF failed THEN nxt
            ELSE clean_entries_abort(nxt, todo \ {q}, days_old, c, locked)

\* the loop over the listing
RECURSIVE clean_entries(_, _, _, _, _)
clean_entries(acc, todo, days_old, c, locked) ==
    IF todo = {} THEN acc
    ELSE LET q == CHOOSE x \in todo : TRUE
         IN clean_entries(clean_entry(acc, q, days_old, c, locked),
                          todo \ {q}, days_old, c, locked)

clean_directory(f, path, days_old, c, locked) ==
    LET acc0 == [stats |-> NewStats, fs |-> f, removals |-> 0]
    IN IF read_dir_ok(f, path)
       THEN clean_entries(acc0, Children(f, path), days_old, c, locked)
       ELSE acc0

(***************************************************************************)
(* The execution-mode gate: CleanupContext::should_proceed.  input is the  *)
(* line read from stdin when the gate asks; the answer is [proceed, asked]. *)
(***************************************************************************)
NoInput == ""

Responses == {"y\n", " YES \n", "n\n", "\n"}

\* input.trim().to_lowercase()
trim_lower(input) ==
    CASE input = "y\n" -> "y"
      [] input = " YES \n" -> "yes"
      [] input = "n\n" -> "n"
      [] OTHER -> ""

\* a variant that compares the line as it was read
affirmative_untrimmed(input) == input = "y" \/ input = "yes"

affirmative(input) == trim_lower(input) = "y" \/ trim_lower(input) = "yes"

\* a variant that tests force before dry_run
should_proceed_force_first(c, input) ==
    IF c.force THEN [proceed |-> TRUE, asked |-> FALSE]
    ELSE IF c.dry_run THEN [proceed |-> FALSE, asked |-> FALSE]
    ELSE IF c.interactive THEN [proceed |-> affirmative(input), asked |-> TRUE]
    ELSE [proceed |-> TRUE, asked |-> FALSE]

should_proceed(c, input) ==
    IF c.dry_run THEN [proceed |-> FALSE, asked |-> FALSE]
    ELSE IF c.force THEN [proceed |-> TRUE, asked |-> FALSE]
    ELSE IF c.interactive THEN [proceed |-> affirmative(input), asked |-> TRUE]
    ELSE [proceed |-> TRUE, asked |-> FALSE]

\* `size > 0 && ctx.should_proceed(..)`: the gate is not consulted for nothing
NotConsulted == [proceed |-> FALSE, asked |-> FALSE]

(***************************************************************************)
(* The category catalogue: the paths main's estimators and cleaners name.  *)
(* Home stands for $HOME; the other paths are absolute.                    *)
(***************************************************************************)
Home == <<"home">>

cache_paths ==
    << Home \o <<"Library", "Caches">>,
       Home \o <<".cache">>,
       <<"Library", "Caches">>,
       <<"System", "Library", "Caches">> >>

estimate_log_paths ==
    << Home \o <<"Library", "Logs">>,
       <<"Library", "Logs">>,
       <<"var", "log">> >>

clean_log_paths ==
    << Home \o <<"Library", "Logs">>,
       Home \o <<".npm", "_logs">>,
       <<"Library", "Logs">>,
       <<"var", "log">> >>

downloads_path == Home \o <<"Downloads">>

trash_path == Home \o <<".Trash">>

estimate_xcode_paths ==
    << Home \o <<"Library", "Developer", "Xcode", "DerivedData">>,
       Home \o <<"Library", "Developer", "Xcode", "Archives">> >>

clean_xcode_paths ==
    << Home \o <<"Library", "Developer", "Xcode", "DerivedData">>,
       Home \o <<"Library", "Developer", "Xcode", "Archives">>,
       Home \o <<"Library", "Developer", "CoreSimulator", "Caches">> >>

homebrew_paths ==
    << <<"Library", "Caches", "Homebrew">>,
       Home \o <<"Library", "Caches", "Homebrew">> >>

search_paths ==
    << Home \o <<"Desktop">>,
       Home \o <<"Documents">>,
       Home \o <<"Developer">>,
       Home \o <<"Projects">> >>

safari_paths ==
    << Home \o <<"Library", "Caches", "com.apple.Safari">>,
       Home \o <<"Library", "Safari", "History.db">>,
       Home \o <<"Library", "Safari", "TopSites.plist">>,
       Home \o <<"Library", "Caches", "com.apple.WebKit.PluginProcess">> >>

chrome_paths ==
    << Home \o <<"Library", "Caches", "Google", "Chrome">>,
       Home \o <<"Library", "Caches", "com.google.Chrome">> >>

containers_path == Home \o <<"Library", "Containers">>

cookies_paths ==
    << Home \o <<"Library", "Cookies">>,
       Home \o <<"Library", "HTTPStorages">>,
       Home \o <<"Library", "WebKit">>,
       Home \o <<"Library", "Safari", "LocalStorage">>,
       Home \o <<"Library", "Safari", "Databases">>,
       Home \o <<"Library", "Application Support", "Google", "Chrome", "Default", "Cookies">>,
       Home \o <<"Library", "Application Support", "Google", "Chrome", "Default", "Local Storage">> >>

xcode_app == <<"Applications", "Xcode.app">>

Range(sq) == {sq[i] : i \in 1..Len(sq)}

(***************************************************************************)
(* The estimators of main.                                                 *)
(***************************************************************************)
\* `for path in paths { if exists { total += get_directory_size(path) } }`
RECURSIVE sum_directory_sizes(_, _)
sum_directory_sizes(f, paths) ==
    IF paths = <<>> THEN 0
    ELSE (IF exists(f, Head(paths)) THEN get_directory_size(f, Head(paths)) ELSE 0)
         + sum_directory_sizes(f, Tail(paths))

RECURSIVE sum_old_files_sizes(_, _, _)
sum_old_files_sizes(f, paths, days) ==
    IF paths = <<>> THEN 0
    ELSE (IF exists(f, Head(paths)) THEN get_old_files_size(f, Head(paths), days) ELSE 0)
         + sum_old_files_sizes(f, Tail(paths), days)

estimate_cache_size(f) == sum_directory_sizes(f, cache_paths)

estimate_logs_size(f) == sum_old_files_sizes(f, estimate_log_paths, 7)

estimate_old_downloads_size(f) ==
    IF exists(f, downloads_path) THEN get_old_files_size(f, downloads_path, 30) ELSE 0

estimate_trash_size(f) ==
    IF exists(f, trash_path) THEN get_directory_size(f, trash_path) ELSE 0

estimate_xcode_size(f) == sum_directory_sizes(f, estimate_xcode_paths)

estimate_homebrew_size(f) == sum_directory_sizes(f, homebrew_paths)

\* the size of a path that is a directory or a file
path_size(f, p) ==
    IF is_dir(f, p) THEN get_directory_size(f, p)
    ELSE IF f[p].meta THEN f[p].len ELSE 0

RECURSIVE estimate_safari_from(_, _)
estimate_safari_from(f, paths) ==
    IF paths = <<>> THEN 0
    ELSE (IF exists(f, Head(paths)) THEN path_size(f, Head(paths)) ELSE 0)
         + estimate_safari_from(f, Tail(paths))

estimate_safari_size(f) == estimate_safari_from(f, safari_paths)

estimate_chrome_cache_size(f) == sum_directory_sizes(f, chrome_paths)

estimate_containers_size(f) ==
    IF exists(f, containers_path) THEN get_directory_size(f, containers_path) ELSE 0

estimate_cookies_size(f) == sum_directory_sizes(f, cookies_paths)

(***************************************************************************)
(* The cleaners built on clean_directory.  Each answers [stats, fs,        *)
(* removals] like clean_directory.                                         *)
(***************************************************************************)
\* `if path.starts_with("/System") || path.starts_with("/Library") { 7 } else { 1 }`
cache_retention_days(path) == IF path[1] \in {"System", "Library"} THEN 7 ELSE 1

\* `for path in paths { if exists { stats.add(&clean_directory(path, days, ctx)) } }`;
\* jobs is the sequence of [path, days]
RECURSIVE clean_paths(_, _, _, _)
clean_paths(acc, jobs, c, locked) ==
    IF jobs = <<>> THEN acc
    ELSE LET j == Head(jobs)
             r == clean_directory(acc.fs, j.path, j.days, c, locked)
             nxt == IF exists(acc.fs, j.path)
                    THEN [stats |-> StatsAdd(acc.stats, r.stats),
                          fs |-> r.fs,
                          removals |-> acc.removals + r.removals]
                    ELSE acc
         IN clean_paths(nxt, Tail(jobs), c, locked)

Untouching(f) == [stats |-> NewStats, fs |-> f, removals |-> 0]

clean_caches(f, c, locked) ==
    clean_paths(Untouching(f),
                [i \in 1..Len(cache_paths) |->
                    [path |-> cache_paths[i],
                     days |-> cache_retention_days(cache_paths[i])]],
                c, locked)

clean_logs(f, c, locked) ==
    clean_paths(Untouching(f),
                [i \in 1..Len(clean_log_paths) |-> [path |-> clean_log_paths[i], days |-> 7]],
                c, locked)

clean_old_downloads(f, c, locked) ==
    clean_paths(Untouching(f), << [path |-> downloads_path, days |-> 30] >>, c, locked)

empty_trash(f, c, locked) ==
    clean_paths(Untouching(f), << [path |-> trash_path, days |-> None] >>, c, locked)

clean_xcode(f, c, locked) ==
    clean_paths(Untouching(f),
                [i \in 1..Len(clean_xcode_paths) |->
                    [path |-> clean_xcode_paths[i], days |-> None]],
                c, locked)

clean_containers(f, c, locked) ==
    clean_paths(Untouching(f), << [path |-> containers_path, days |-> 7] >>, c, locked)

clean_cookies(f, c, locked) ==
    clean_paths(Untouching(f),
                [i \in 1..Len(cookies_paths) |-> [path |-> cookies_paths[i], days |-> 0]],
                c, locked)

(***************************************************************************)
(* The cleaners that remove their paths themselves.                        *)
(***************************************************************************)
\* one path of clean_safari: a directory or a file, removed whole
clean_safari_path(acc, p, c, locked) ==
    IF ~exists(acc.fs, p) THEN acc
    ELSE LET one == [files_removed |-> 1, space_freed |-> path_size(acc.fs, p)]
         IN IF ~c.dry_run
            THEN LET r == IF is_dir(acc.fs, p) THEN remove_dir_all(acc.fs, p, locked)
                          ELSE remove_file(acc.fs, p, locked)
                 IN [stats |-> IF r.ok THEN StatsAdd(acc.stats, one) ELSE acc.stats,
                     fs |-> r.fs,
                     removals |-> acc.removals + 1]
            ELSE [acc EXCEPT !.stats = StatsAdd(acc.stats, one)]

RECURSIVE clean_safari_from(_, _, _, _)
clean_safari_from(acc, paths, c, locked) ==
    IF paths = <<>> THEN acc
    ELSE clean_safari_from(clean_safari_path(acc, Head(paths), c, locked),
                           Tail(paths), c, locked)

clean_safari(f, c, locked) == clean_safari_from(Untouching(f), safari_paths, c, locked)

\* one path of clean_chrome_cache: removed with remove_dir_all
clean_chrome_path(acc, p, c, locked) ==
    IF ~exists(acc.fs, p) THEN acc
    ELSE LET one == [files_removed |-> 1, space_freed |-> get_directory_size(acc.fs, p)]
         IN IF ~c.dry_run
            THEN LET r == remove_dir_all(acc.fs, p, locked)
                 IN [stats |-> IF r.ok THEN StatsAdd(acc.stats, one) ELSE acc.stats,
                     fs |-> r.fs,
                     removals |-> acc.removals + 1]
            ELSE [acc EXCEPT !.stats = StatsAdd(acc.stats, one)]

RECURSIVE clean_chrome_from(_, _, _, _)
clean_chrome_from(acc, paths, c, locked) ==
    IF paths = <<>> THEN acc
    ELSE clean_chrome_from(clean_chrome_path(acc, Head(paths), c, locked),
                           Tail(paths), c, locked)

clean_chrome_cache(f, c, locked) ==
    clean_chrome_from(Untouching(f), chrome_paths, c, locked)

(***************************************************************************)
(* RecursiveFinder: node_modules directories and Python caches.  The       *)
(* finders answer the set of paths they push (the roots are disjoint, so   *)
(* no path is pushed twice; the order of a listing is the platform's).     *)
(***************************************************************************)
\* Path::extension of the names the model knows
extension(name) ==
    CASE name = "m.pyc" -> "pyc"
      [] name = "m.pyo" -> "pyo"
      [] name = "f.dat" -> "dat"
      [] name = "a.txt" -> "txt"
      [] name = "b.log" -> "log"
      [] name = "in.bin" -> "bin"
      [] name = "History.db" -> "db"
      [] name = "TopSites.plist" -> "plist"
      [] OTHER -> "none"

\* a variant that forgets the Library directory
descendable_unless_hidden(name) == ~starts_with_dot(name)

\* `!dir_name.starts_with('.') && dir_name != "Library"`
descendable(name) == ~starts_with_dot(name) /\ name # "Library"

\* a variant that goes on below a directory that matched
RECURSIVE find_node_modules_descending(_, _, _, _)
find_node_modules_descending(f, path, depth, max_depth) ==
    IF depth > max_depth \/ ~read_dir_ok(f, path) THEN {}
    ELSE UNION { IF ~is_dir(f, q) THEN {}
                 ELSE (IF file_name(q) = "node_modules" THEN {q} ELSE {})
                      \cup (IF descendable(file_name(q))
                            THEN find_node_modules_descending(f, q, depth + 1, max_depth)
                            ELSE {}) : q \in Children(f, path) }

RECURSIVE find_node_modules_recursive(_, _, _, _)
find_node_modules_recursive(f, path, depth, max_depth) ==
    IF depth > max_depth \/ ~read_dir_ok(f, path) THEN {}
    ELSE UNION { IF ~is_dir(f, q) THEN {}
                 ELSE IF file_name(q) = "node_modules" THEN {q}
                 ELSE IF descendable(file_name(q))
                      THEN find_node_modules_recursive(f, q, depth + 1, max_depth)
                      ELSE {} : q \in Children(f, path) }

RECURSIVE find_python_cache_files(_, _, _, _)
find_python_cache_files(f, path, depth, max_depth) ==
    IF depth > max_depth \/ ~read_dir_ok(f, path) THEN {}
    ELSE UNION { IF is_dir(f, q)
                 THEN IF file_name(q) = "__pycache__" THEN {q}
                      ELSE IF descendable(file_name(q))
                           THEN find_python_cache_files(f, q, depth + 1, max_depth)
                           ELSE {}
                 ELSE IF extension(file_name(q)) \in {"pyc", "pyo"} THEN {q} ELSE {}
                 : q \in Children(f, path) }

RECURSIVE find_python_cache_size(_, _, _, _)
find_python_cache_size(f, path, depth, max_depth) ==
    IF depth > max_depth \/ ~read_dir_ok(f, path) THEN 0
    ELSE SetSum(Children(f, path),
                [q \in Children(f, path) |->
                    IF is_dir(f, q)
                    THEN IF file_name(q) = "__pycache__" THEN get_directory_size(f, q)
                         ELSE IF descendable(file_name(q))
                              THEN find_python_cache_size(f, q, depth + 1, max_depth)
                              ELSE 0
                    ELSE IF extension(file_name(q)) \in {"pyc", "pyo"}
                         THEN metadata_len(f, q)
                         ELSE 0])

\* the search over the roots that exist
found_node_modules(f) ==
    UNION { IF exists(f, search_paths[i])
            THEN find_node_modules_recursive(f, search_paths[i], 0, 3)
            ELSE {} : i \in 1..Len(search_paths) }

found_python_cache(f) ==
    UNION { IF exists(f, search_paths[i])
            THEN find_python_cache_files(f, search_paths[i], 0, 4)
            ELSE {} : i \in 1..Len(search_paths) }

estimate_python_cache_size(f) ==
    SetSum(1..Len(search_paths),
           [i \in 1..Len(search_paths) |->
               IF exists(f, search_paths[i])
               THEN find_python_cache_size(f, search_paths[i], 0, 4)
               ELSE 0])

\* `for dir in found_dirs { if remove_dir_all(dir).is_ok() { files_removed += 1 } }`
RECURSIVE remove_found_dirs(_, _, _)
remove_found_dirs(acc, todo, locked) ==
    IF todo = {} THEN acc
    ELSE LET q == CHOOSE x \in todo : TRUE
             r == remove_dir_all(acc.fs, q, locked)
         IN remove_found_dirs(
                [stats |-> IF r.ok
                           THEN [acc.stats EXCEPT !.files_removed = @ + 1]
                           ELSE acc.stats,
                 fs |-> r.fs,
                 removals |-> acc.removals + 1],
                todo \ {q}, locked)

\* find_and_clean_node_modules: total is main's running total, which it
\* updates itself; the answer carries the gate's decision as well
find_and_clean_node_modules(f, c, total, input, locked) ==
    LET found_dirs == found_node_modules(f)
        total_size == SetSum(found_dirs, [d \in found_dirs |-> get_directory_size(f, d)])
        g == IF found_dirs # {} THEN should_proceed(c, input) ELSE NotConsulted
        r == remove_found_dirs([stats |-> total, fs |-> f, removals |-> 0],
                               found_dirs, locked)
    IN IF g.proceed /\ ~c.dry_run
       THEN [stats |-> [r.stats EXCEPT !.space_freed = @ + total_size],
             fs |-> r.fs, removals |-> r.removals, gate |-> g, size |-> total_size]
       ELSE [stats |-> total, fs |-> f, removals |-> 0, gate |-> g, size |-> total_size]

\* `fs::remove_file(&file).is_ok() || fs::remove_dir_all(&file).is_ok()`
RECURSIVE remove_found_files(_, _, _)
remove_found_files(acc, todo, locked) ==
    IF todo = {} THEN acc
    ELSE LET q == CHOOSE x \in todo : TRUE
             r1 == remove_file(acc.fs, q, locked)
             r2 == remove_dir_all(acc.fs, q, locked)
         IN remove_found_files(
                [stats |-> IF r1.ok \/ r2.ok
                           THEN [acc.stats EXCEPT !.files_removed = @ + 1]
                           ELSE acc.stats,
                 fs |-> IF r1.ok THEN r1.fs ELSE r2.fs,
                 removals |-> acc.removals + (IF r1.ok THEN 1 ELSE 2)],
                todo \ {q}, locked)

clean_python_cache(f, c, locked) ==
    LET found_files == found_python_cache(f)
        \* fs::metadata(file).len(): a directory's own length, not its contents'
        total_size == SetSum(found_files, [q \in found_files |-> metadata_len(f, q)])
        r == remove_found_files(Untouching(f), found_files, locked)
    IN IF found_files = {} THEN Untouching(f)
       ELSE IF ~c.dry_run
            THEN [r EXCEPT !.stats.space_freed = total_size]
            ELSE [stats |-> [files_removed |-> Cardinality(found_files),
                             space_freed |-> total_size],
                  fs |-> f, removals |-> 0]

(***************************************************************************)
(* The categories that run an external command.  cmd is what became of     *)
(* the command: it could not be spawned, it exited non-zero, or it exited  *)
(* zero; swept tells whether brew emptied its caches.                      *)
(***************************************************************************)
CmdResults == {"spawn_failed", "exit_nonzero", "exit_zero"}

\* Command::output().is_ok()
spawned(cmd) == cmd # "spawn_failed"

\* what `brew cleanup -s` does to the filesystem when it empties its caches
RECURSIVE brew_sweep(_, _)
brew_sweep(f, paths) ==
    IF paths = <<>> THEN f
    ELSE brew_sweep([q \in DOMAIN f |->
                        IF IsPrefix(Head(paths), q) /\ q # Head(paths)
                        THEN NoEntry ELSE f[q]],
                    Tail(paths))

clean_homebrew(f, c, cmd, swept) ==
    IF c.dry_run THEN Untouching(f)
    ELSE LET before_size == estimate_homebrew_size(f)
             g == IF spawned(cmd) /\ swept THEN brew_sweep(f, homebrew_paths) ELSE f
             after_size == estimate_homebrew_size(g)
         IN [stats |-> [files_removed |-> 0,
                        space_freed |->
                            IF cmd = "exit_zero"
                            THEN IF before_size > after_size
                                 THEN before_size - after_size
                                 ELSE before_size \div 2
                            ELSE 0],
             fs |-> g, removals |-> 0]

\* clean_docker: `docker system prune` touches nothing the model holds, and no
\* outcome of it is logged as an error
clean_docker(f, c, cmd) == Untouching(f)

\* check_xcode_installed
check_xcode_installed(f, cmd) == exists(f, xcode_app) \/ spawned(cmd)

\* check_homebrew_installed, check_docker_installed
check_tool_installed(cmd) == spawned(cmd)

\* estimate_docker_size: "Return 1GB as estimate"
estimate_docker_size(cmd) == IF cmd = "exit_zero" THEN 1073741824 ELSE 0

(***************************************************************************)
(* The directory the cleaner and the estimators are exercised on.          *)
(***************************************************************************)
D == <<"D">>

DChildren ==
    {<<"D", ".DS_Store">>, <<"D", ".hidden">>, <<"D", "a.txt">>, <<"D", "b.log">>,
     <<"D", "sub">>}

FileLen(p) ==
    CASE file_name(p) = ".DS_Store" -> 50
      [] file_name(p) = ".hidden" -> 25
      [] file_name(p) = "a.txt" -> 100
      [] file_name(p) = "b.log" -> 200
      [] file_name(p) = "in.bin" -> 400
      [] file_name(p) = "f.dat" -> 400
      [] file_name(p) = "m.pyc" -> 100
      [] file_name(p) = "History.db" -> 200
      [] OTHER -> 64        \* a directory's own length

\* elapsed seconds tried: a modification time in the future, and both sides of
\* every whole-day boundary up to MaxDays
Ages ==
    {0 - 1} \cup {k * SecsPerDay : k \in 0..MaxDays}
            \cup {k * SecsPerDay - 1 : k \in 1..MaxDays}

\* a file of any age, or none
AgedFileOpts(p) == {NoEntry} \cup {File(FileLen(p), TRUE, a) : a \in Ages}

\* the same, or a file whose metadata cannot be read
FileOpts(p) == AgedFileOpts(p) \cup {File(FileLen(p), FALSE, 0)}

DirOpts(p) ==
    {NoEntry, SealedDir(FileLen(p), TRUE, MaxDays * SecsPerDay)}
    \cup {Dir(FileLen(p), TRUE, a) : a \in Ages}

\* the directory itself: listable, not listable, a file, or missing
RootOpts(p) ==
    {Dir(FileLen(p), TRUE, 0), SealedDir(FileLen(p), TRUE, 0),
     File(FileLen(p), TRUE, 0), NoEntry}

\* the directories below p that cannot be listed: remove_dir_all cannot empty
\* them, so the operating system refuses them in every call
Sealed(f, p) == {q \in Subtree(f, p) \ {p} : is_dir(f, q) /\ ~f[q].list}

DaysOpts == {None} \cup 0..MaxDays

\* the record of an operation; size is the estimate or the size it answered
CallRec(op, path, days, locked, stats, size) ==
    [op |-> op, path |-> path, days |-> days, locked |-> locked,
     stats |-> stats, size |-> size, asked |-> FALSE, proceed |-> FALSE,
     installed |-> TRUE, found |-> {}, max_depth |-> 0, cmd |-> "none",
     prev |-> NewStats, probe |-> "none"]

NoCall == CallRec("none", <<>>, None, {}, NewStats, 0)

\* what may refuse removal during one call: nothing, one entry below p, or
\* every entry below p
LockedSets(f, p) ==
    LET below == Subtree(f, p) \ {p}
    IN {l \cup Sealed(f, p) : l \in {{}, below} \cup {{q} : q \in below}}

InitDir ==
    /\ \E ds \in AgedFileOpts(<<"D", ".DS_Store">>),
          h \in {NoEntry, File(FileLen(<<"D", ".hidden">>), TRUE, MaxDays * SecsPerDay)},
          a \in FileOpts(<<"D", "a.txt">>),
          b \in AgedFileOpts(<<"D", "b.log">>),
          s \in DirOpts(<<"D", "sub">>),
          i \in {NoEntry, File(FileLen(<<"D", "sub", "in.bin">>), TRUE, 0)},
          d \in RootOpts(D) :
          /\ s.kind = "none" => i.kind = "none"
          /\ d.kind # "dir" => {ds, h, a, b, s} = {NoEntry}
          /\ (d.kind = "dir" /\ ~d.list) => {ds, h, b} = {NoEntry}
          /\ fs = (D :> d) @@ (<<"D", ".DS_Store">> :> ds)
                  @@ (<<"D", ".hidden">> :> h)
                  @@ (<<"D", "a.txt">> :> a) @@ (<<"D", "b.log">> :> b)
                  @@ (<<"D", "sub">> :> s) @@ (<<"D", "sub", "in.bin">> :> i)
    /\ cli \in {a \in Cli : a.interactive /\ ~a.ram_only /\ a.force = ~a.dry_run}
    /\ fs0 = fs
    /\ pc = "dir"
    /\ total_stats = NewStats
    /\ produced = NothingProduced
    /\ call = NoCall
    /\ pre = fs
    /\ removals = 0
    /\ errors = {}
    /\ prompts = 0

\* one call of clean_directory on D
CleanDirectory ==
    /\ pc = "dir"
    /\ \E days \in DaysOpts,
          locked \in IF ctx.dry_run THEN {{}} ELSE LockedSets(fs, D) :
          LET r == clean_directory(fs, D, days, ctx, locked)
          IN /\ fs' = r.fs
             /\ removals' = removals + r.removals
             /\ call' = CallRec("clean_directory", D, days, locked, r.stats, 0)
    /\ pre' = fs
    /\ pc' = "called"
    /\ UNCHANGED <<fs0, cli, total_stats, produced, errors, prompts>>

\* a second call of clean_directory on D, right after the first and with the
\* same rule; prev keeps what the first call answered
CleanDirectoryAgain ==
    /\ pc = "called"
    /\ call.op = "clean_directory"
    /\ LET r == clean_directory(fs, D, call.days, ctx, call.locked)
       IN /\ fs' = r.fs
          /\ removals' = removals + r.removals
          /\ call' = [call EXCEPT !.op = "clean_directory_again",
                                  !.prev = call.stats, !.stats = r.stats]
    /\ pre' = fs
    /\ pc' = "called_again"
    /\ UNCHANGED <<fs0, cli, total_stats, produced, errors, prompts>>

\* one call of get_old_files_size on D
OldFilesSize ==
    /\ pc = "dir"
    /\ \E days \in 0..MaxDays :
          call' = CallRec("get_old_files_size", D, days, {}, NewStats,
                          get_old_files_size(fs, D, days))
    /\ pre' = fs
    /\ pc' = "called"
    /\ UNCHANGED <<fs, fs0, cli, total_stats, produced, removals, errors, prompts>>

\* one call of get_directory_size on D
DirectorySize ==
    /\ pc = "dir"
    /\ call' = CallRec("get_directory_size", D, None, {}, NewStats,
                       get_directory_size(fs, D))
    /\ pre' = fs
    /\ pc' = "called"
    /\ UNCHANGED <<fs, fs0, cli, total_stats, produced, removals, errors, prompts>>

NextDir == CleanDirectory \/ CleanDirectoryAgain \/ OldFilesSize \/ DirectorySize

SpecDir == InitDir /\ [][NextDir]_vars

(***************************************************************************)
(* The finders exercised on one root: a tree below R is a few files out of *)
(* a fixed set of places and the directories that lead to them.            *)
(***************************************************************************)
MaxFindDepth == 4     \* max_depth 0..MaxFindDepth is tried

MaxLeaves == 2        \* files in a tree

R == <<"R">>

FindLeaves ==
    {R \o <<"node_modules", "f.dat">>,
     R \o <<"p", "node_modules", "f.dat">>,
     R \o <<"p", "node_modules", "sub", "node_modules", "f.dat">>,
     R \o <<"p", "q", "node_modules", "f.dat">>,
     R \o <<"p", "q", "r", "node_modules", "f.dat">>,
     R \o <<"p", "q", "r", "s", "node_modules", "f.dat">>,
     R \o <<"Library", "node_modules", "f.dat">>,
     R \o <<".hidden", "node_modules", "f.dat">>,
     R \o <<"p", "Library", "__pycache__", "m.pyc">>,
     R \o <<"p", "__pycache__", "m.pyc">>,
     R \o <<"p", "__pycache__", "sub", "__pycache__", "m.pyc">>,
     R \o <<"p", "m.pyc">>,
     R \o <<"m.pyo">>,
     R \o <<"p", "f.dat">>,
     R \o <<".hidden", "m.pyc">>,
     R \o <<"Library", "m.pyc">>,
     R \o <<"p", "q", "r", "s", "m.pyc">>,
     R \o <<"p", "q", "r", "s", "t", "m.pyc">>,
     R \o <<"node_modules", "__pycache__", "m.pyc">>,
     R \o <<"p", "__pycache__", "node_modules", "f.dat">>}

RECURSIVE SubsetsUpTo(_, _)
SubsetsUpTo(S, n) ==
    IF n = 0 THEN {{}}
    ELSE LET smaller == SubsetsUpTo(S, n - 1)
         IN smaller \cup {T \cup {x} : T \in smaller, x \in S}

\* the tree that holds the files L, every one of them fresh
TreeOf(L) ==
    LET dirs == {R} \cup UNION {{SubSeq(l, 1, n) : n \in 1..(Len(l) - 1)} : l \in L}
    IN [q \in L \cup dirs |->
          IF q \in L THEN File(FileLen(q), TRUE, 0) ELSE Dir(FileLen(q), TRUE, 0)]

FoundRec(op, max_depth, found, size) ==
    [CallRec(op, R, None, {}, NewStats, size)
        EXCEPT !.found = found, !.max_depth = max_depth]

InitFind ==
    /\ \E L \in SubsetsUpTo(FindLeaves, MaxLeaves) : fs = TreeOf(L)
    /\ fs0 = fs
    /\ cli \in {a \in Cli : ~a.interactive /\ ~a.ram_only /\ a.dry_run /\ ~a.force}
    /\ pc = "find"
    /\ total_stats = NewStats
    /\ produced = NothingProduced
    /\ call = NoCall
    /\ pre = fs
    /\ removals = 0
    /\ errors = {}
    /\ prompts = 0

\* find_node_modules_recursive(R, found, 0, max_depth)
FindNodeModules ==
    /\ pc = "find"
    /\ \E max_depth \in 0..MaxFindDepth :
          call' = FoundRec("find_node_modules_recursive", max_depth,
                           find_node_modules_recursive(fs, R, 0, max_depth), 0)
    /\ pre' = fs
    /\ pc' = "found"
    /\ UNCHANGED <<fs, fs0, cli, total_stats, produced, removals, errors, prompts>>

\* find_python_cache_files(R, found, 0, max_depth)
FindPythonCacheFiles ==
    /\ pc = "find"
    /\ \E max_depth \in 0..MaxFindDepth :
          call' = FoundRec("find_python_cache_files", max_depth,
                           find_python_cache_files(fs, R, 0, max_depth), 0)
    /\ pre' = fs
    /\ pc' = "found"
    /\ UNCHANGED <<fs, fs0, cli, total_stats, produced, removals, errors, prompts>>

\* find_python_cache_size(R, 0, max_depth)
FindPythonCacheSize ==
    /\ pc = "find"
    /\ \E max_depth \in 0..MaxFindDepth :
          call' = FoundRec("find_python_cache_size", max_depth, {},
                           find_python_cache_size(fs, R, 0, max_depth))
    /\ pre' = fs
    /\ pc' = "found"
    /\ UNCHANGED <<fs, fs0, cli, total_stats, produced, removals, errors, prompts>>

NextFind == FindNodeModules \/ FindPythonCacheFiles \/ FindPythonCacheSize

SpecFind == InitFind /\ [][NextFind]_vars

(***************************************************************************)
(* A run of main.  The filesystem of a run holds a few files in the        *)
(* places the catalogue names, and the directories that lead to them; a    *)
(* directory is as old as the youngest file below it.                      *)
(***************************************************************************)
CleanedRoots ==
    Range(cache_paths) \cup Range(clean_log_paths) \cup {downloads_path, trash_path}
    \cup Range(clean_xcode_paths) \cup Range(homebrew_paths)
    \cup {safari_paths[1], safari_paths[4]} \cup Range(chrome_paths)
    \cup {containers_path} \cup Range(cookies_paths)

project == Home \o <<"Projects", "app">>

Leaves ==
    {r \o <<n>> : r \in CleanedRoots, n \in {"f.dat", ".hidden"}}
    \cup {safari_paths[2], xcode_app,
          project \o <<"node_modules", "f.dat">>,
          project \o <<"node_modules", "sub", "node_modules", "f.dat">>,
          project \o <<"__pycache__", "m.pyc">>,
          project \o <<"m.pyc">>,
          Home \o <<"Projects", ".hidden", "node_modules", "f.dat">>}

\* the files two of which may be present together
PairLeaves ==
    {cache_paths[1] \o <<"f.dat">>, cache_paths[3] \o <<".hidden">>,
     clean_log_paths[1] \o <<"f.dat">>, clean_log_paths[2] \o <<"f.dat">>,
     downloads_path \o <<"f.dat">>, trash_path \o <<"f.dat">>,
     homebrew_paths[2] \o <<"f.dat">>, safari_paths[1] \o <<"f.dat">>,
     project \o <<"node_modules", "f.dat">>, project \o <<"__pycache__", "m.pyc">>,
     cookies_paths[1] \o <<"f.dat">>}

LeafSets == {{}} \cup {{l} : l \in Leaves} \cup {{a, b} : a \in PairLeaves, b \in PairLeaves}

\* elapsed seconds of the files of a run, all of one age: fresh, or older than
\* every threshold
RunAges == {0, 31 * SecsPerDay}

ProperPrefixes(p) == {SubSeq(p, 1, n) : n \in 1..(Len(p) - 1)}

Youngest(S) == CHOOSE a \in S : \A b \in S : a <= b

BuildFs(L, age) ==
    LET dirs == UNION {ProperPrefixes(l) : l \in L}
    IN [p \in L \cup dirs |->
          IF p \in L THEN File(FileLen(p), TRUE, age[p])
          ELSE Dir(FileLen(p), TRUE, Youngest({age[l] : l \in {x \in L : IsPrefix(p, x)}}))]

Init ==
    /\ \E L \in LeafSets : \E a \in RunAges : fs = BuildFs(L, [l \in L |-> a])
    /\ fs0 = fs
    /\ cli \in Cli
    /\ pc = "start"
    /\ total_stats = NewStats
    /\ produced = NothingProduced
    /\ call = NoCall
    /\ pre = fs
    /\ removals = 0
    /\ errors = {}
    /\ prompts = 0

\* what the terminal may answer when the gate reads a line
Inputs == IF ctx.interactive /\ ~ctx.dry_run /\ ~ctx.force THEN Responses ELSE {NoInput}

\* what may refuse removal during one category: nothing, one file, everything
Locks ==
    IF ctx.dry_run THEN {{}}
    ELSE LET there == {q \in DOMAIN fs : exists(fs, q)}
         IN {{}, there} \cup {{q} : q \in {x \in there : ~is_dir(fs, x)}}

\* clean_ram: the messages it gives to log_error
clean_ram_errors(c, cmd) ==
    IF c.dry_run THEN {}
    ELSE IF cmd = "exit_zero" THEN {}
    ELSE IF cmd = "exit_nonzero"
         THEN {"Failed to purge RAM - may need sudo privileges"}
         ELSE {"Failed to run purge command - sudo may not be available"}

\* clean_ram: vm is what became of vm_stat, whose output it expects, and cmd
\* what became of `sudo purge`; the answer tells the errors logged and whether
\* the process panicked
clean_ram(c, vm, cmd) ==
    IF c.dry_run THEN [errors |-> {}, panic |-> FALSE]
    ELSE IF ~spawned(vm) THEN [errors |-> {}, panic |-> TRUE]
    ELSE [errors |-> clean_ram_errors(c, cmd), panic |-> FALSE]

\* the messages, tagged with the category that logged them
Logged(name, msgs) == {<<name, m>> : m \in msgs}

\* `if cli.ram_only { clean_ram(&ctx); return; }`
RamOnly ==
    /\ pc = "start"
    /\ cli.ram_only
    /\ \E vm \in CmdResults, cmd \in CmdResults :
          LET r == clean_ram(ctx, vm, cmd)
          IN /\ errors' = errors \cup Logged("ram_only", r.errors)
             /\ call' = [CallRec("ram_only", <<>>, None, {}, NewStats, 0)
                           EXCEPT !.proceed = TRUE,
                                  !.cmd = IF ctx.dry_run \/ r.panic THEN "none" ELSE cmd]
             /\ pc' = IF r.panic THEN "panicked" ELSE "done"
    /\ pre' = fs
    /\ UNCHANGED <<fs, fs0, cli, total_stats, produced, removals, prompts>>

\* get_disk_info: `Command::new("df")...output().expect(..)` panics when df
\* cannot be spawned
get_disk_info_panics(df) == ~spawned(df)

\* the initial get_disk_info, the banner, show_menu in interactive mode,
\* calculate_total_cleanup_size
Start ==
    /\ pc = "start"
    /\ ~cli.ram_only
    /\ \E input \in Inputs, df \in CmdResults :
          LET menu == ctx.interactive /\ ~ctx.dry_run
              go == ~menu \/ affirmative(input)
          IN IF get_disk_info_panics(df)
             THEN /\ call' = CallRec("get_disk_info", <<>>, None, {}, NewStats, 0)
                  /\ pc' = "panicked"
                  /\ prompts' = prompts
             ELSE /\ call' = [CallRec("menu", <<>>, None, {}, NewStats, 0)
                                EXCEPT !.asked = menu, !.proceed = go]
                  /\ pc' = IF go THEN "caches" ELSE "done"
                  /\ prompts' = prompts + (IF menu THEN 1 ELSE 0)
    /\ pre' = fs
    /\ UNCHANGED <<fs, fs0, cli, total_stats, produced, removals, errors>>

\* one category block of main: the estimate est was shown, the gate answered
\* g, and on proceed the cleaner's answer r is merged into the running total
\* show_space_preview(size): for a size above zero it calls get_disk_info,
\* which panics when df cannot be spawned
PreviewPanics(name, size) ==
    /\ pc = name
    /\ size > 0
    /\ \E df \in CmdResults : get_disk_info_panics(df)
    /\ call' = CallRec("show_space_preview", <<>>, None, {}, NewStats, size)
    /\ pre' = fs
    /\ pc' = "panicked"
    /\ UNCHANGED <<fs, fs0, cli, total_stats, produced, removals, errors, prompts>>

BlockDone(name, next, est, g, r, locked, cmd, probe) ==
    /\ pc = name
    /\ fs' = IF g.proceed THEN r.fs ELSE fs
    /\ total_stats' = IF g.proceed THEN StatsAdd(total_stats, r.stats) ELSE total_stats
    /\ produced' = IF g.proceed THEN [produced EXCEPT ![name] = r.stats] ELSE produced
    /\ removals' = removals + (IF g.proceed THEN r.removals ELSE 0)
    /\ call' = [CallRec(name, <<>>, None, locked,
                        IF g.proceed THEN r.stats ELSE NewStats, est)
                  EXCEPT !.asked = g.asked, !.proceed = g.proceed,
                         !.cmd = IF g.proceed /\ ~ctx.dry_run THEN cmd ELSE "none",
                         !.probe = probe]
    /\ prompts' = prompts + (IF g.asked THEN 1 ELSE 0)
    /\ pre' = fs
    /\ pc' = next
    /\ UNCHANGED <<fs0, cli, errors>>

\* a category entered after its prerequisite probe answered "installed"
BlockProbed(name, next, est, g, r, locked, cmd, probe) ==
    \/ PreviewPanics(name, est)
    \/ BlockDone(name, next, est, g, r, locked, cmd, probe)

\* a category without a prerequisite probe
BlockCmd(name, next, est, g, r, locked, cmd) ==
    BlockProbed(name, next, est, g, r, locked, cmd, "none")

\* a category that runs no external command
Block(name, next, est, g, r, locked) == BlockCmd(name, next, est, g, r, locked, "none")

\* a category whose prerequisite probe answered "not installed"
Skip(name, next, probe) ==
    /\ pc = name
    /\ call' = [CallRec(name, <<>>, None, {}, NewStats, 0)
                  EXCEPT !.installed = FALSE, !.probe = probe]
    /\ pre' = fs
    /\ pc' = next
    /\ UNCHANGED <<fs, fs0, cli, total_stats, produced, removals, errors, prompts>>

Caches ==
    \E input \in Inputs, locked \in Locks :
        Block("caches", "logs", estimate_cache_size(fs),
              should_proceed(ctx, input), clean_caches(fs, ctx, locked), locked)

Logs ==
    \E input \in Inputs, locked \in Locks :
        Block("logs", "downloads", estimate_logs_size(fs),
              should_proceed(ctx, input), clean_logs(fs, ctx, locked), locked)

Downloads ==
    \E input \in Inputs, locked \in Locks :
        LET size == estimate_old_downloads_size(fs)
        IN Block("downloads", "trash", size,
                 IF size > 0 THEN should_proceed(ctx, input) ELSE NotConsulted,
                 clean_old_downloads(fs, ctx, locked), locked)

Trash ==
    \E input \in Inputs, locked \in Locks :
        LET size == estimate_trash_size(fs)
        IN Block("trash", "xcode", size,
                 IF size > 0 THEN should_proceed(ctx, input) ELSE NotConsulted,
                 empty_trash(fs, ctx, locked), locked)

Xcode ==
    \E probe \in CmdResults :
        IF check_xcode_installed(fs, probe)
        THEN \E input \in Inputs, locked \in Locks :
                LET size == estimate_xcode_size(fs)
                IN BlockProbed("xcode", "homebrew", size,
                               IF size > 0 THEN should_proceed(ctx, input)
                               ELSE NotConsulted,
                               clean_xcode(fs, ctx, locked), locked, "none", probe)
        ELSE Skip("xcode", "homebrew", probe)

Homebrew ==
    \E probe \in CmdResults :
        IF check_tool_installed(probe)
        THEN \E input \in Inputs, cmd \in CmdResults, swept \in BOOLEAN :
                BlockProbed("homebrew", "node", estimate_homebrew_size(fs),
                            should_proceed(ctx, input),
                            clean_homebrew(fs, ctx, cmd, swept), {}, cmd, probe)
        ELSE Skip("homebrew", "node", probe)

NodeModulesDone ==
    /\ pc = "node"
    /\ \E input \in Inputs, locked \in Locks :
          LET r == find_and_clean_node_modules(fs, ctx, total_stats, input, locked)
          IN /\ fs' = r.fs
             /\ total_stats' = r.stats
             /\ produced' = [produced EXCEPT !["node"] =
                                [files_removed |->
                                     r.stats.files_removed - total_stats.files_removed,
                                 space_freed |->
                                     r.stats.space_freed - total_stats.space_freed]]
             /\ removals' = removals + r.removals
             /\ call' = [CallRec("node", <<>>, None, locked,
                                 [files_removed |->
                                      r.stats.files_removed - total_stats.files_removed,
                                  space_freed |->
                                      r.stats.space_freed - total_stats.space_freed],
                                 r.size)
                           EXCEPT !.asked = r.gate.asked, !.proceed = r.gate.proceed]
             /\ prompts' = prompts + (IF r.gate.asked THEN 1 ELSE 0)
    /\ pre' = fs
    /\ pc' = "docker"
    /\ UNCHANGED <<fs0, cli, errors>>

\* the node_modules block: find_and_clean_node_modules previews the size of
\* what it found before it consults the gate
NodeModules ==
    \/ PreviewPanics("node",
                     find_and_clean_node_modules(fs, ctx, total_stats, NoInput, {}).size)
    \/ NodeModulesDone

Docker ==
    \E probe \in CmdResults :
        IF check_tool_installed(probe)
        THEN \E input \in Inputs, df \in CmdResults, cmd \in CmdResults :
                BlockProbed("docker", "safari", estimate_docker_size(df),
                            should_proceed(ctx, input), clean_docker(fs, ctx, cmd),
                            {}, cmd, probe)
        ELSE Skip("docker", "safari", probe)

Safari ==
    \E input \in Inputs, locked \in Locks :
        LET size == estimate_safari_size(fs)
        IN Block("safari", "chrome", size,
                 IF size > 0 THEN should_proceed(ctx, input) ELSE NotConsulted,
                 clean_safari(fs, ctx, locked), locked)

Chrome ==
    \E input \in Inputs, locked \in Locks :
        LET size == estimate_chrome_cache_size(fs)
        IN Block("chrome", "python", size,
                 IF size > 0 THEN should_proceed(ctx, input) ELSE NotConsulted,
                 clean_chrome_cache(fs, ctx, locked), locked)

Python ==
    \E input \in Inputs, locked \in Locks :
        LET size == estimate_python_cache_size(fs)
        IN Block("python", "containers", size,
                 IF size > 0 THEN should_proceed(ctx, input) ELSE NotConsulted,
                 clean_python_cache(fs, ctx, locked), locked)

Containers ==
    \E input \in Inputs, locked \in Locks :
        LET size == estimate_containers_size(fs)
        IN Block("containers", "cookies", size,
                 IF size > 0 THEN should_proceed(ctx, input) ELSE NotConsulted,
                 clean_containers(fs, ctx, locked), locked)

Cookies ==
    \E input \in Inputs, locked \in Locks :
        LET size == estimate_cookies_size(fs)
        IN Block("cookies", "ram", size,
                 IF size > 0 THEN should_proceed(ctx, input) ELSE NotConsulted,
                 clean_cookies(fs, ctx, locked), locked)

\* show_ram_status: `Command::new("vm_stat").output().expect(..)` panics when
\* vm_stat cannot be spawned
show_ram_status_panics(vm) == ~spawned(vm)

\* the RAM block: show_ram_status, the gate, clean_ram
Ram ==
    /\ pc = "ram"
    /\ \E input \in Inputs, vm \in CmdResults, cmd \in CmdResults :
          LET g == should_proceed(ctx, input)
              r == clean_ram(ctx, vm, cmd)
          IN IF show_ram_status_panics(vm)
             THEN /\ call' = CallRec("show_ram_status", <<>>, None, {}, NewStats, 0)
                  /\ pc' = "panicked"
                  /\ UNCHANGED <<errors, prompts>>
             ELSE /\ errors' = IF g.proceed THEN errors \cup Logged("ram", r.errors)
                               ELSE errors
                  /\ call' = [CallRec("ram", <<>>, None, {}, NewStats, 0)
                                EXCEPT !.asked = g.asked, !.proceed = g.proceed,
                                       !.cmd = IF g.proceed /\ ~ctx.dry_run
                                               THEN cmd ELSE "none"]
                  /\ prompts' = prompts + (IF g.asked THEN 1 ELSE 0)
                  /\ pc' = "report"
    /\ pre' = fs
    /\ UNCHANGED <<fs, fs0, cli, total_stats, produced, removals>>

\* the final get_disk_info and the final report
Report ==
    /\ pc = "report"
    /\ \E df \in CmdResults :
          pc' = IF get_disk_info_panics(df) THEN "panicked" ELSE "done"
    /\ UNCHANGED <<fs, fs0, cli, total_stats, produced, call, pre, removals, errors, prompts>>

Next ==
    \/ RamOnly \/ Start
    \/ Caches \/ Logs \/ Downloads \/ Trash \/ Xcode \/ Homebrew \/ NodeModules
    \/ Docker \/ Safari \/ Chrome \/ Python \/ Containers \/ Cookies \/ Ram
    \/ Report

Spec == Init /\ [][Next]_vars

(***************************************************************************)
(* Vocabulary of the properties.  They speak of the directory before the   *)
(* call (pre), the directory after it (fs) and the answer (call).          *)
(***************************************************************************)
Cleaned == pc = "called" /\ call.op = "clean_directory"

Aged == pc = "called" /\ call.op = "get_old_files_size"

\* the listing the call saw, and the entries of it that are gone afterwards
Listed == IF read_dir_ok(pre, call.path) THEN Children(pre, call.path) ELSE {}

Removed == {q \in Listed : ~exists(fs, q)}

Untouched(q) == \A r \in Subtree(pre, q) : fs[r] = pre[r]

\* a protected name: a dotfile
Protected(q) == starts_with_dot(file_name(q))

\* sizeOf: the recursive size of an entry
SizeOf(f, q) == IF is_dir(f, q) THEN get_directory_size(f, q) ELSE metadata_len(f, q)

\* the retention rule as the specification states it: unprotected, and either
\* no minimum age or a readable age of at least k whole days
Qualifies(f, q, k) ==
    /\ ~Protected(q)
    /\ k = None \/ (age_known(f, q) /\ f[q].elapsed \div SecsPerDay >= k)

CountAndSize(f, S) ==
    [files_removed |-> Cardinality(S),
     space_freed |-> SetSum(S, [q \in S |-> SizeOf(f, q)])]

\* the removal of q is refused, wholly or partway
Refused(q) == Subtree(pre, q) \cap call.locked # {}

\* f without the entry q and what is below it
Without(f, q) == [r \in DOMAIN f |-> IF IsPrefix(q, r) THEN NoEntry ELSE f[r]]

DryCtx == [ctx EXCEPT !.dry_run = TRUE]

One(f, q) == [files_removed |-> 1, space_freed |-> SizeOf(f, q)]

(***************************************************************************)
(* Properties of a run of main (Spec).                                     *)
(***************************************************************************)

\* C1: in a run with dry_run set, whatever the other flags and at every point
\* of the category sequence, no removal primitive has been invoked and the
\* filesystem is the one the run began with.
C1_DryRunRemovesNothing ==
    cli.dry_run => (removals = 0 /\ fs = fs0)

C1_Witness ==
    /\ cli.dry_run /\ cli.force /\ ~cli.ram_only
    /\ pc = "done"
    /\ estimate_trash_size(fs) > 0
    /\ found_node_modules(fs) # {}

\* the byte total a DryRun run over the filesystem f presents at the gate of
\* a category
EstimateAtGate(name, f) ==
    CASE name = "caches" -> estimate_cache_size(f)
      [] name = "logs" -> estimate_logs_size(f)
      [] name = "downloads" -> estimate_old_downloads_size(f)
      [] name = "trash" -> estimate_trash_size(f)
      [] name = "xcode" -> estimate_xcode_size(f)
      [] name = "safari" -> estimate_safari_size(f)
      [] name = "chrome" -> estimate_chrome_cache_size(f)
      [] name = "python" -> estimate_python_cache_size(f)
      [] name = "containers" -> estimate_containers_size(f)
      [] name = "cookies" -> estimate_cookies_size(f)
      [] OTHER -> 0

SizedCategories ==
    {"caches", "logs", "downloads", "trash", "xcode", "safari", "chrome", "python",
     "containers", "cookies"}

\* C2: for every category, the byte total a DryRun run presents at the gate
\* equals the space_freed its cleaner reports in a Force run over the same
\* filesystem when every removal succeeds.
C2_EstimateEqualsFreed ==
    (/\ cli.force /\ ~cli.dry_run
     /\ call.op \in SizedCategories /\ call.proceed
     /\ call.locked = {} /\ pre = fs0) =>
        call.stats.space_freed = EstimateAtGate(call.op, fs0)

(***************************************************************************)
(* Properties of the directory cleaner and the estimators (SpecDir).       *)
(***************************************************************************)

\* C3: a call of clean_directory that removes for real, nothing being refused,
\* returns the CleanupStats the same call returns in DryRun on the same
\* directory, and the entries DryRun counts are the entries removed for real.
C3_DryRunEqualsForce ==
    (Cleaned /\ ~ctx.dry_run /\ call.locked = {}) =>
        LET dry == clean_directory(pre, call.path, call.days, DryCtx, {})
        IN /\ dry.stats = call.stats
           /\ dry.stats = CountAndSize(pre, Removed)
           /\ dry.fs = pre

C3_Witness ==
    /\ Cleaned /\ ~ctx.dry_run /\ call.locked = {} /\ call.days # None
    /\ Cardinality(Removed) >= 2
    /\ \E q \in Listed : ~Protected(q) /\ exists(fs, q)

\* C4: whatever the rule, the mode and its age, an immediate child whose name
\* starts with '.' is left as it was by clean_directory and adds nothing to
\* files_removed or space_freed: the stats are those of the directory without it.
C4_DotfilesNeverTouched ==
    Cleaned =>
        \A q \in Listed : Protected(q) =>
            /\ Untouched(q)
            /\ call.stats =
                 clean_directory(Without(pre, q), call.path, call.days, ctx,
                                 call.locked).stats

C4_Witness ==
    /\ Cleaned /\ ~ctx.dry_run /\ call.days # None
    /\ call.stats.files_removed >= 1
    /\ \E q \in Listed :
          /\ file_name(q) = ".hidden"
          /\ pre[q].elapsed >= call.days * SecsPerDay
          /\ exists(fs, q)

\* C5: get_old_files_size(D, k) is the sum of sizeOf(child) over the immediate
\* children of D that are at least k whole days old and are not protected.
C5_AgedSizeExcludesProtected ==
    Aged =>
        LET Q == {q \in Listed : Qualifies(pre, q, call.days)}
        IN call.size = SetSum(Q, [q \in Q |-> SizeOf(pre, q)])

\* C6: with a minimum age, an entry whose age cannot be determined is not
\* removed by clean_directory and is not counted in the stats.
C6_UnknownAgeNotQualifying ==
    (Cleaned /\ call.days # None) =>
        \A q \in Listed : ~age_known(pre, q) =>
            /\ Untouched(q)
            /\ call.stats =
                 clean_directory(Without(pre, q), call.path, call.days, ctx,
                                 call.locked).stats

\* C7: for every threshold k, an unprotected entry modified exactly k*86400
\* seconds ago qualifies (clean_directory counts it and, removing for real,
\* removes it; get_old_files_size adds its size), and one modified one second
\* less ago does not (it is left alone and adds nothing).
C7_WholeDayBoundary ==
    (pc = "called" /\ call.days # None) =>
        \A q \in Listed : (~Protected(q) /\ pre[q].meta /\ ~Refused(q)) =>
            LET k == call.days
                rest == Without(pre, q)
                cleaned == clean_directory(rest, call.path, k, ctx, call.locked).stats
                aged == get_old_files_size(rest, call.path, k)
            IN /\ pre[q].elapsed = k * SecsPerDay =>
                    /\ call.op = "clean_directory" =>
                          /\ call.stats = StatsAdd(cleaned, One(pre, q))
                          /\ ~ctx.dry_run => ~exists(fs, q)
                    /\ call.op = "get_old_files_size" =>
                          call.size = aged + SizeOf(pre, q)
               /\ (k >= 1 /\ pre[q].elapsed = k * SecsPerDay - 1) =>
                    /\ call.op = "clean_directory" =>
                          call.stats = cleaned /\ Untouched(q)
                    /\ call.op = "get_old_files_size" => call.size = aged

C7_Witness ==
    /\ Cleaned /\ ~ctx.dry_run /\ call.days >= 1
    /\ \E q \in Listed :
          ~Protected(q) /\ pre[q].elapsed = call.days * SecsPerDay /\ ~exists(fs, q)
    /\ \E q \in Listed :
          ~Protected(q) /\ pre[q].elapsed = call.days * SecsPerDay - 1 /\ exists(fs, q)

\* C8: after a clean_directory that removes for real, nothing being refused, the
\* entries removed are exactly the unprotected children that satisfy the rule,
\* every other child is as it was, files_removed is their number and
\* space_freed the sum of their sizes.
C8_ForceRemovesExactlyQualifying ==
    (Cleaned /\ ~ctx.dry_run /\ call.locked = {}) =>
        /\ Removed = {q \in Listed : Qualifies(pre, q, call.days)}
        /\ \A q \in Listed \ Removed : Untouched(q)
        /\ call.stats = CountAndSize(pre, Removed)

\* C9 as stated: after clean_directory removing for real with no minimum age
\* in a directory D it could list, no unprotected entry remains in D, and
\* space_freed is the total size of the removed entries as measured before
\* their removal.
C9_NoUnprotectedRemains ==
    (Cleaned /\ ~ctx.dry_run /\ call.days = None /\ read_dir_ok(pre, call.path)) =>
        /\ \A q \in Children(fs, call.path) : Protected(q)
        /\ call.stats.space_freed = CountAndSize(pre, Removed).space_freed

\* C9 amended: after clean_directory removing for real with no minimum age
\* in a directory D it could list, no unprotected entry remains in D except
\* those whose removal was refused, and space_freed is the total size of the
\* removed entries as measured before their removal.
C9_NoUnprotectedRemainsUnlessRefused ==
    (Cleaned /\ ~ctx.dry_run /\ call.days = None /\ read_dir_ok(pre, call.path)) =>
        /\ \A q \in Children(fs, call.path) : Protected(q) \/ Refused(q)
        /\ call.stats.space_freed = CountAndSize(pre, Removed).space_freed

C9_Witness ==
    /\ Cleaned /\ ~ctx.dry_run /\ call.days = None
    /\ \E q \in Listed : ~Protected(q) /\ Refused(q) /\ exists(fs, q)
    /\ \E q \in Removed : is_dir(pre, q)
    /\ call.stats.space_freed > 0

\* C10: when clean_directory removes for real and the removal of an entry is
\* refused (wholly, or partway through a directory), the entry stays in the
\* listing and adds nothing to the stats, which count exactly the entries that
\* are gone; every sibling that qualifies and is not refused is removed.
C10_RefusedRemovalNotCounted ==
    (Cleaned /\ ~ctx.dry_run) =>
        /\ \A q \in Listed : Refused(q) => exists(fs, q)
        /\ call.stats = CountAndSize(pre, Removed)
        /\ \A q \in Listed :
              (Qualifies(pre, q, call.days) /\ ~Refused(q)) => ~exists(fs, q)

C10_Witness ==
    /\ Cleaned /\ ~ctx.dry_run
    /\ \E q \in Listed :
          /\ is_dir(pre, q) /\ Qualifies(pre, q, call.days)
          /\ Refused(q) /\ q \notin call.locked /\ exists(fs, q)
    /\ Cardinality(Removed) >= 2

(***************************************************************************)
(* Batch removal of a finder's result set (Spec).                          *)
(***************************************************************************)
\* the result set the last category removed from
FoundSet ==
    IF call.op = "node" THEN found_node_modules(pre) ELSE found_python_cache(pre)

\* the last category was a batch removal that removed for real
BatchRemoved == call.op \in {"node", "python"} /\ call.proceed /\ ~ctx.dry_run

\* C11: after the batch removal of a finder's result set, files_removed is the
\* number of entries of the set that are gone and space_freed is the sum of
\* the recursive sizes those entries had before the removal: an entry whose
\* removal failed is not counted.
C11_BatchFailureNotCounted ==
    BatchRemoved =>
        call.stats = CountAndSize(pre, {q \in FoundSet : ~exists(fs, q)})

(***************************************************************************)
(* Missing and unreadable paths (SpecDir).                                 *)
(***************************************************************************)
\* the files below p that a traversal from p can read: their metadata is
\* readable and every directory from p down to them can be listed
ReadableFilesBelow(f, p) ==
    {q \in Subtree(f, p) :
        /\ q # p /\ f[q].kind = "file" /\ f[q].meta
        /\ \A a \in ProperPrefixes(q) : IsPrefix(p, a) => read_dir_ok(f, a)}

\* an entry whose metadata or whose listing cannot be read
Unreadable(f, q) == ~f[q].meta \/ (is_dir(f, q) /\ ~f[q].list)

\* C12: for a path that is missing or cannot be listed, get_directory_size and
\* get_old_files_size answer 0 and clean_directory answers {0, 0}, touching
\* nothing and reporting no error; inside a traversal an unreadable sub-entry
\* adds zero and its siblings are still counted.
C12_MissingPathIsNotAnError ==
    pc = "called" =>
        /\ ~read_dir_ok(pre, call.path) =>
              call.stats = NewStats /\ call.size = 0 /\ fs = pre /\ errors = {}
        /\ call.op = "get_directory_size" =>
              LET readable == ReadableFilesBelow(pre, call.path)
              IN call.size = SetSum(readable, [q \in readable |-> pre[q].len])
        /\ call.op = "get_old_files_size" =>
              \A q \in Listed : Unreadable(pre, q) =>
                  call.size = get_old_files_size(Without(pre, q), call.path, call.days)

C12_Witness ==
    /\ Cleaned /\ ~ctx.dry_run /\ call.days = None
    /\ is_dir(pre, call.path) /\ ~read_dir_ok(pre, call.path)
    /\ exists(fs, <<"D", "a.txt">>)

\* an unreadable sub-entry next to readable siblings, inside a size traversal
C12_SiblingsStillCounted ==
    /\ pc = "called" /\ call.op = "get_directory_size"
    /\ \E q \in Listed : is_dir(pre, q) /\ ~pre[q].list /\ Children(pre, q) # {}
    /\ \E q \in Listed : ~is_dir(pre, q) /\ ~pre[q].meta
    /\ call.size > 0

(***************************************************************************)
(* Properties of the finders (SpecFind).                                   *)
(***************************************************************************)
Found == pc = "found" /\ call.op \in {"find_node_modules_recursive",
                                       "find_python_cache_files"}

\* the depth of q below the root: an immediate child is at depth 1
DepthBelow(root, q) == Len(q) - Len(root)

\* the directory components strictly between the root and q
Between(root, q) == {q[i] : i \in (Len(root) + 1)..(Len(q) - 1)}

Denylisted(name) == name = "Library" \/ starts_with_dot(name)

\* C13: no path a finder returns lies inside another directory it returned: a
\* directory that matched is not descended into.
C13_MatchedDirectoryPruned ==
    Found => \A a \in call.found, b \in call.found : a # b => ~IsPrefix(a, b)

C13_Witness ==
    /\ Found /\ call.op = "find_node_modules_recursive"
    /\ call.max_depth = 3
    /\ call.found = {R \o <<"p", "node_modules">>}
    /\ is_dir(pre, R \o <<"p", "node_modules", "sub", "node_modules">>)

\* C14: every path find_node_modules_recursive(root, _, 0, maxDepth) returns is
\* at depth <= maxDepth below the root, an immediate child being at depth 1.
C14_DepthBounded ==
    (Found /\ call.op = "find_node_modules_recursive") =>
        \A q \in call.found : DepthBelow(call.path, q) <= call.max_depth

\* C15: no path a finder returns, and none find_python_cache_size counts, has
\* a directory named Library or starting with '.' strictly between the root
\* and the match.
C15_DenylistNeverTraversed ==
    /\ Found => \A q \in call.found :
                    \A name \in Between(call.path, q) : ~Denylisted(name)
    /\ (pc = "found" /\ call.op = "find_python_cache_size") =>
          LET counted == {q \in find_python_cache_files(pre, call.path, 0, call.max_depth) :
                            \A name \in Between(call.path, q) : ~Denylisted(name)}
          IN call.size = SetSum(counted, [q \in counted |-> SizeOf(pre, q)])

C15_Witness ==
    /\ Found /\ call.op = "find_node_modules_recursive"
    /\ is_dir(pre, R \o <<"Library", "node_modules">>)
    /\ call.found = {R \o <<"p", "node_modules">>}

(***************************************************************************)
(* Properties of the gate and of the category sequence (Spec).             *)
(***************************************************************************)
\* the categories whose gate is consulted whatever the estimate
AlwaysGated == {"caches", "logs", "homebrew", "docker", "ram"}

\* the categories of the sequence that have a gate in main
GatedCategories == SizedCategories \cup {"homebrew", "docker", "ram"}

InteractiveMode == cli.interactive /\ ~cli.force /\ ~cli.dry_run

\* C16: for every combination of the flags, should_proceed answers false
\* without reading when dry_run is set, true without reading when force is set
\* and dry_run is not, and reads a response only when neither is set; every
\* gate decision of the run follows it.
C16_OneModeGoverns ==
    /\ \A input \in Responses \cup {NoInput} :
          LET g == should_proceed(ctx, input)
          IN /\ cli.dry_run => (~g.proceed /\ ~g.asked)
             /\ (cli.force /\ ~cli.dry_run) => (g.proceed /\ ~g.asked)
             /\ g.asked => (~cli.dry_run /\ ~cli.force)
    /\ call.asked => (~cli.dry_run /\ ~cli.force)
    /\ (call.op \in AlwaysGated /\ call.installed) =>
          /\ cli.dry_run => ~call.proceed
          /\ (cli.force /\ ~cli.dry_run) => call.proceed

C16_Witness ==
    /\ cli.dry_run /\ cli.force /\ cli.interactive
    /\ call.op = "logs" /\ ~call.proceed /\ ~call.asked
    /\ call.size > 0

\* one step of a run in Interactive mode
C17_Step ==
    InteractiveMode =>
        /\ prompts' <= prompts + 1
        /\ removals' # removals => (call'.asked /\ call'.proceed)
        /\ (call'.asked /\ ~call'.proceed) =>
              (fs' = fs /\ removals' = removals /\ total_stats' = total_stats)
        /\ \A input \in Responses :
              should_proceed(ctx, input).proceed <=> input \in {"y\n", " YES \n"}

\* C17: in Interactive mode a category reads at most one response, however
\* many entries it removes; its removal primitives are invoked only if that
\* response was "y" or "yes" after trimming, whatever the case; on any other
\* response nothing is removed and the running total is unchanged.
C17_OnePromptPerCategory == [][C17_Step]_vars

C17_Witness ==
    /\ InteractiveMode
    /\ call.op = "logs" /\ call.asked /\ call.proceed
    /\ call.stats.files_removed >= 2
    /\ prompts = 3

\* C18: whatever the outcome of a category, every later category is still
\* estimated and presented to the gate and the run reaches its final report:
\* the process never terminates abnormally.
C18_NoAbnormalTermination == pc # "panicked"

\* C19: under Force, every category whose prerequisite holds proceeds to
\* cleaning without a prompt, whatever the estimate computed for it was.
C19_ForceAlwaysCleans ==
    (cli.force /\ ~cli.dry_run /\ call.op \in GatedCategories /\ call.installed) =>
        (call.proceed /\ ~call.asked)

\* C20: when the external cleanup command of a category could not be run or
\* exited non-zero, an error message of that category has been given to the
\* error sink.
C20_CommandFailureLogged ==
    (call.op \in {"homebrew", "docker", "ram", "ram_only"}
        /\ call.cmd \in {"spawn_failed", "exit_nonzero"}) =>
        \E e \in errors : e[1] = call.op

(***************************************************************************)
(* Counting, idempotence and the zero threshold (SpecDir).                 *)
(***************************************************************************)
\* q was counted by the call: removed for real, or simulated
Counted(q) ==
    /\ ~Protected(q) /\ ~too_young(pre, q, call.days)
    /\ ctx.dry_run \/ ~exists(fs, q)

\* C21: in any mode files_removed of a clean_directory call is at most the
\* number of immediate children listed, and a directory that is counted adds
\* exactly one to it whatever it holds.
C21_OneRemovalPerChild ==
    Cleaned =>
        /\ call.stats.files_removed <= Cardinality(Listed)
        /\ \A q \in Listed : (is_dir(pre, q) /\ Counted(q)) =>
              call.stats.files_removed =
                  clean_directory(Without(pre, q), call.path, call.days, ctx,
                                  call.locked).stats.files_removed + 1

C21_Witness ==
    /\ Cleaned /\ ~ctx.dry_run
    /\ \E q \in Removed : is_dir(pre, q) /\ Children(pre, q) # {}
    /\ call.stats.files_removed = Cardinality(Removed)
    /\ call.stats.files_removed >= 2

\* C23: two successive DryRun calls of clean_directory with the same rule
\* return the same CleanupStats, and the directory is the same before the
\* first, between the two and after the second.
C23_DryRunIdempotent ==
    /\ (Cleaned /\ ctx.dry_run) => fs = pre
    /\ (pc = "called_again" /\ ctx.dry_run) =>
          /\ call.stats = call.prev
          /\ pre = fs0 /\ fs = pre

C23_Witness ==
    /\ pc = "called_again" /\ ctx.dry_run
    /\ call.days = 1
    /\ call.stats.files_removed >= 2
    /\ call.stats.files_removed < Cardinality(Children(fs, call.path))

\* C25: a minimum age of 0 days is a full clear: in every mode and for every
\* directory clean_directory with Some(0) removes (or simulates removing) the
\* entries clean_directory with None does and returns the same CleanupStats.
C25_ZeroDaysIsFullClear ==
    (Cleaned /\ call.days \in {0, None}) =>
        LET other == IF call.days = 0 THEN None ELSE 0
            r == clean_directory(pre, call.path, other, ctx, call.locked)
        IN /\ r.stats = call.stats /\ r.fs = fs
           /\ \A q \in Listed : ~Protected(q) =>
                 \/ ctx.dry_run /\ fs[q] = pre[q]
                 \/ ~ctx.dry_run /\ (~exists(fs, q) \/ Refused(q))

C25_Witness ==
    /\ Cleaned /\ ~ctx.dry_run /\ call.days = 0
    /\ \E q \in Removed : pre[q].elapsed = 0
    /\ \E q \in Removed : pre[q].elapsed >= SecsPerDay
    /\ \E q \in Listed : Protected(q) /\ exists(fs, q)

(***************************************************************************)
(* The running total (Spec).                                               *)
(***************************************************************************)
ProducedStats == {produced[n] : n \in StatCategories}

\* C22: at every point of a run the running total is the component-wise sum of
\* the CleanupStats produced by the categories cleaned so far; the pairwise
\* addition that accumulates it is commutative and associative on those
\* values, so the sum does not depend on the order of completion.
C22_TotalIsSumOfCategories ==
    /\ total_stats.files_removed =
           SetSum(StatCategories, [n \in StatCategories |-> produced[n].files_removed])
    /\ total_stats.space_freed =
           SetSum(StatCategories, [n \in StatCategories |-> produced[n].space_freed])
    /\ \A a, b \in ProducedStats :
           /\ StatsAdd(a, b) = StatsAdd(b, a)
           /\ StatsAdd(StatsAdd(total_stats, a), b) = StatsAdd(total_stats, StatsAdd(a, b))
    /\ StatsAdd(NewStats, total_stats) = total_stats

C22_Witness ==
    /\ pc = "done"
    /\ Cardinality({n \in StatCategories : produced[n].files_removed > 0}) >= 2
    /\ produced["node"].space_freed > 0
    /\ total_stats.space_freed > produced["node"].space_freed

(***************************************************************************)
(* Prerequisite probes (Spec).                                             *)
(***************************************************************************)
ProbedCategories == {"xcode", "homebrew", "docker"}

\* the category of the last step was skipped: not estimated, not presented to
\* the gate, not cleaned, the total as it was, and the run goes on
Skipped ==
    /\ ~call.installed
    /\ call.size = 0 /\ ~call.asked /\ ~call.proceed
    /\ fs = pre /\ call.stats = NewStats /\ produced[call.op] = NewStats
    /\ pc # "panicked"

\* the probe of the last step did not find the tool: the command could not be
\* run, or it ran and answered with a failure status (and, for Xcode, the
\* application is not there either)
ToolAbsent ==
    /\ call.op \in ProbedCategories
    /\ call.probe \in {"spawn_failed", "exit_nonzero"}
    /\ call.op = "xcode" => ~exists(pre, xcode_app)

\* C24: a category whose prerequisite probe reports the tool absent, or whose
\* probe fails to run, ends Skipped: never estimated, never presented to the
\* gate, never cleaned, the running total unchanged, and the run continues.
C24_AbsentToolSkipped == ToolAbsent => Skipped

\* the part that holds: a probe command that cannot be run skips the category
C24_UnrunnableProbeSkipped == (ToolAbsent /\ call.probe = "spawn_failed") => Skipped

C24_SkippedReached ==
    /\ ToolAbsent /\ call.probe = "spawn_failed" /\ Skipped
    /\ call.op = "docker" /\ total_stats.files_removed > 0

====
